---- MODULE Spec2Model ----
(***************************************************************************)
(* Tool-call bridge of property_bot: MCPServerManager of                   *)
(* backend/server-openai.js (backend/server-enhanced.js carries the same   *)
(* class).  One worker process, one id-keyed map of pending requests, one  *)
(* 10 s timer per request, one readline 'line' handler on the worker's     *)
(* stdout.  Node runs every callback to completion on one thread, so each  *)
(* callback is one atomic action.                                          *)
(***************************************************************************)
EXTENDS Integers, Sequences, FiniteSets, TLC

\* ---------------------------------------------------------------- bounds
MaxCalls == 2          \* callTool invocations made in one run
TickMs == 5000         \* granularity of the clock, in ms
ElapsedCap == 10000    \* the per-invocation clock saturates here
MaxStarts == 2         \* start() calls made on one manager used on its own
MaxStops == 2          \* stop() calls made on one manager used on its own
MaxToolCalls == 2      \* tool calls the model asks for in one chat request

\* ------------------------------------------------------------- constants
\* setTimeout(..., 10000)
TimeoutDelay == 10000

\* new Error('MCP server timeout')
TimeoutMessage == "MCP server timeout"

ToolNames == {"calculate_property"}

VARIABLES
    process,          \* this.process: "null" until start() spawned the worker
    requestId,        \* this.requestId
    pendingRequests,  \* this.pendingRequests: key -> invocation whose {resolve, reject} it holds
    callId,           \* callId[i]: the requestId captured by the i-th callTool invocation
    promises,         \* promises[i]: the promise returned by the i-th invocation
    timers,           \* the timers created by setTimeout, in creation order
    stdin,            \* the request lines written to this.process.stdin
    uncaught,         \* an exception escaped a callback (Node then ends the process)
    errorLogged,      \* console.error('Error parsing MCP response:', ...) has been called
    elapsed,          \* elapsed[i]: ms since invocation i registered (observed until its timer fired)
    resolverCalls,    \* resolverCalls[i]: how often resolve or reject of invocation i was called
    effects,          \* effects[i]: events for i's id that changed the map or a promise
    settleLog,        \* invocations in the order their promises settled
    lastEvent,        \* the callback that ran last
    workers,          \* the child processes spawned so far; this.process is the last one
    stopCalls,        \* how often stop() has been called
    toolResponses,    \* the values the callTool promises of one chat request resolved with
    toolCallResults,  \* toolCallResults of that chat request
    chat,             \* where the handler of that chat request stands
    http,             \* the HTTP responses sent for that chat request
    owner,            \* owner[i]: the chat request whose handler made invocation i (0: not followed)
    variant,          \* the backend that is running
    server,           \* the server process: "up" or "exited"
    stderrLogged,     \* the chunks of the worker's error stream passed to console.error
    translation       \* the argument and the result of one translateQuery call

vars == <<process, requestId, pendingRequests, callId, promises, timers, stdin,
          uncaught, errorLogged, elapsed, resolverCalls, effects, settleLog, lastEvent,
          workers, stopCalls, toolResponses, toolCallResults, chat, http, owner,
          variant, server, stderrLogged, translation>>

\* what the bridge callbacks leave alone
lifeVars == <<workers, stopCalls>>
chatVars == <<toolResponses, toolCallResults, chat, http>>
hostVars == <<variant, server, stderrLogged, translation>>

\* ------------------------------------------------------- worker output lines
\* A JavaScript value used as response.id: a number, a string or undefined.
NumId(n) == [t |-> "num", v |-> n]
StrId(n) == [t |-> "str", v |-> n]
UndefinedId == [t |-> "undef", v |-> 0]

\* One line of text on the worker's stdout.
\*   form "notjson": text that is no JSON document (a traceback, a print)
\*   form "null":    the text  null
\*   form "number":  the text  7
\*   form "object":  {"id": <id>, "result": {"output": <text>}}  or
\*                   {"id": <id>, "error": {"message": <text>}}
NoLine == [form |-> "none", id |-> UndefinedId, body |-> "none", text |-> ""]
BadLines ==
    { [form |-> f, id |-> UndefinedId, body |-> "none", text |-> ""] :
        f \in {"notjson", "null", "number"} }
ResponseLines ==
    { [form |-> "object", id |-> NumId(n), body |-> "result", text |-> "997.0 kg/m3"] :
        n \in 1..MaxCalls }
    \cup
    { [form |-> "object", id |-> NumId(n), body |-> "error", text |-> "not found"] :
        n \in 1..MaxCalls }
OddIdLines ==
    { [form |-> "object", id |-> StrId(1), body |-> "result", text |-> "997.0 kg/m3"] }
Lines == BadLines \cup ResponseLines \cup OddIdLines

\* JSON.parse(line): throws SyntaxError on text that is no JSON document,
\* otherwise yields the decoded value.
JSONParse(line) ==
    IF line.form = "notjson"
    THEN [threw |-> TRUE, value |-> NoLine]
    ELSE [threw |-> FALSE, value |-> line]

\* response.id: reading a property of null throws TypeError; a number has
\* no own property id; an object yields its id member as it is.
ResponseIdCoerced(value) ==
    CASE value.form = "null" -> [threw |-> TRUE, id |-> UndefinedId]
      [] value.form = "number" -> [threw |-> FALSE, id |-> UndefinedId]
      [] value.id.t = "str" -> [threw |-> FALSE, id |-> NumId(value.id.v)]
      [] OTHER -> [threw |-> FALSE, id |-> value.id]
ResponseId(value) ==
    CASE value.form = "null" -> [threw |-> TRUE, id |-> UndefinedId]
      [] value.form = "number" -> [threw |-> FALSE, id |-> UndefinedId]
      [] OTHER -> [threw |-> FALSE, id |-> value.id]

\* try { ... } catch (error) { console.error(...) } around the handler body:
\* whether a throw inside the body escapes the handler.
EscapesNoTry(threw) == threw
Escapes(threw) == FALSE

\* ------------------------------------------------------------ Map, Promise
\* Map.prototype.has / get / delete / set (keys compare by SameValueZero, so
\* the string "1" is not the number 1); get of a missing key is undefined,
\* written 0 here (invocations are numbered from 1).
MapHas(m, k) == k \in DOMAIN m

MapGetOldest(m, k) ==
    IF DOMAIN m = {} THEN 0
    ELSE m[CHOOSE o \in DOMAIN m : \A j \in DOMAIN m : o.v <= j.v]
MapGet(m, k) == IF k \in DOMAIN m THEN m[k] ELSE 0

MapDelete(m, k) == [j \in DOMAIN m \ {k} |-> m[j]]

MapSet(m, k, x) == [j \in DOMAIN m \cup {k} |-> IF j = k THEN x ELSE m[j]]

\* this.pendingRequests.delete(requestId) in the line handler
HandlerDeleteForgotten(m, k) == m
HandlerDelete(m, k) == MapDelete(m, k)

\* this.pendingRequests.delete(requestId) in the timeout callback
TimeoutDeleteForgotten(m, k) == m
TimeoutDelete(m, k) == MapDelete(m, k)

\* A promise: pending, or settled once and for all.  `at` is the invocation's
\* clock when it was rejected.
NewPromise == [state |-> "pending", value |-> NoLine, reason |-> "", at |-> 0]

\* The resolve / reject functions handed to the executor: they settle a
\* pending promise and do nothing to a settled one.
PromiseResolveOrReject(p, response) ==
    IF p.state # "pending" THEN p
    ELSE IF response.body = "error"
         THEN [state |-> "rejected", value |-> NoLine, reason |-> response.text, at |-> 0]
         ELSE [state |-> "resolved", value |-> response, reason |-> "", at |-> 0]
PromiseResolve(p, response) ==
    IF p.state = "pending"
    THEN [state |-> "resolved", value |-> response, reason |-> "", at |-> 0]
    ELSE p

PromiseRejectDropped(p, message, now) == p
PromiseReject(p, message, now) ==
    IF p.state = "pending"
    THEN [state |-> "rejected", value |-> NoLine, reason |-> message, at |-> now]
    ELSE p

\* ++this.requestId
NextRequestIdStale(r) == r
NextRequestId(r) == r + 1

Min(a, b) == IF a < b THEN a ELSE b
Max(a, b) == IF a > b THEN a ELSE b

Invocations == 1..Len(promises)

\* ------------------------------------------------------------------- Init
\* constructor(): process = null, requestId = 0, pendingRequests = new Map()
NoChat == [pc |-> "none", posted |-> [given |-> FALSE, text |-> << >>],
           message |-> [given |-> FALSE, text |-> << >>], language |-> "undefined", route |-> "none", toolCalls |-> 0,
           llmCalls |-> 0, forwarded |-> 0, failed |-> 0, fault |-> "none"]
NoTranslation == [query |-> << >>, translatedQuery |-> << >>, pc |-> "none", n |-> 1]

\* the state of everything around the bridge before anything has happened
HostInit ==
    /\ chat = NoChat
    /\ http = << >>
    /\ owner = << >>
    /\ server = "up"
    /\ stderrLogged = {}

BridgeInit ==
    /\ process = "null"
    /\ requestId = 0
    /\ pendingRequests = << >>
    /\ callId = << >>
    /\ promises = << >>
    /\ timers = << >>
    /\ stdin = << >>
    /\ uncaught = FALSE
    /\ errorLogged = FALSE
    /\ elapsed = << >>
    /\ resolverCalls = << >>
    /\ effects = << >>
    /\ settleLog = << >>
    /\ lastEvent = [type |-> "init", line |-> NoLine, inv |-> 0]
    /\ workers = << >>
    /\ stopCalls = 0
    /\ toolResponses = << >>
    /\ toolCallResults = << >>

\* backend/server-openai.js, freshly loaded
Init ==
    /\ BridgeInit
    /\ HostInit
    /\ variant = "server-openai"
    /\ translation = NoTranslation

\* Bookkeeping shared by the callbacks: which invocations an event with
\* request id `key` concerns, and whether the callback changed anything.
Concerned(key) == {i \in Invocations : NumId(callId[i]) = key}

NoteEffects(key, pend2, proms2) ==
    [i \in Invocations |->
        IF i \in Concerned(key) /\ (pend2 # pendingRequests \/ proms2 # promises)
        THEN effects[i] + 1 ELSE effects[i]]

NoteSettled(proms2) ==
    LET newly == {i \in Invocations : promises[i].state = "pending" /\ proms2[i].state # "pending"}
    IN  IF newly = {} THEN settleLog ELSE Append(settleLog, CHOOSE i \in newly : TRUE)

\* ------------------------------------------------------------------ start()
\* app.listen callback -> mcpServer.start(): spawn the worker, attach the
\* readline interface and the handlers.
\* spawn(pythonPath, [...]): the child process one start() creates.  A spawn
\* that fails (no such interpreter) still returns a child object, and its
\* 'error' event is queued for the next tick.
NewWorkersTwice(ok) ==
    << [state |-> IF ok THEN "alive" ELSE "failing", signals |-> 0],
       [state |-> IF ok THEN "alive" ELSE "failing", signals |-> 0] >>
NewWorkers(ok) == << [state |-> IF ok THEN "alive" ELSE "failing", signals |-> 0] >>

\* A spawn failure whose 'error' event has not been delivered yet; the
\* next-tick queue is drained before any other callback runs.
ErrorEventDue == \E w \in DOMAIN workers : workers[w].state = "failing"

LiveWorkers == {w \in DOMAIN workers : workers[w].state = "alive"}

\* The body of start(): this.process = spawn(...), whatever this.process was.
DoStart(ok) ==
    /\ process' = "running"
    /\ workers' = workers \o NewWorkers(ok)
    /\ lastEvent' = [type |-> "start", line |-> NoLine, inv |-> 0]
    /\ UNCHANGED <<requestId, pendingRequests, callId, promises, timers, stdin,
                   uncaught, errorLogged, elapsed, resolverCalls, effects, settleLog,
                   stopCalls>>
    /\ UNCHANGED chatVars
    /\ UNCHANGED <<hostVars, owner>>

\* The server calls start() once, in the callback of app.listen.
Start ==
    /\ ~uncaught
    /\ process = "null"
    /\ \E ok \in BOOLEAN : DoStart(ok)

\* this.process.on('error', ...): the listener logs the error; an 'error'
\* event without a listener would be thrown.
ErrorEventUnhandled(e) == TRUE
ErrorEventEscapes(e) == FALSE

\* The 'error' event of a failed spawn is delivered.
OnProcessError(w) ==
    /\ ~uncaught
    /\ w \in DOMAIN workers
    /\ workers[w].state = "failing"
    /\ workers' = [workers EXCEPT ![w].state = "failed"]
    /\ uncaught' = ErrorEventEscapes("spawn")
    /\ lastEvent' = [type |-> "spawnerror", line |-> NoLine, inv |-> 0]
    /\ UNCHANGED <<process, requestId, pendingRequests, callId, promises, timers, stdin,
                   errorLogged, elapsed, resolverCalls, effects, settleLog, stopCalls>>
    /\ UNCHANGED chatVars
    /\ UNCHANGED <<hostVars, owner>>

\* A running worker exits (a crash, or the end of a terminated worker); the
\* class listens to no 'exit' event, so nothing of the manager changes.  Its
\* output read so far has been handled; nothing more arrives afterwards.
WorkerExit(w) ==
    /\ ~uncaught
    /\ ~ErrorEventDue
    /\ w \in DOMAIN workers
    /\ workers[w].state = "alive"
    /\ workers' = [workers EXCEPT ![w].state = "exited"]
    /\ lastEvent' = [type |-> "exit", line |-> NoLine, inv |-> 0]
    /\ UNCHANGED <<process, requestId, pendingRequests, callId, promises, timers, stdin,
                   uncaught, errorLogged, elapsed, resolverCalls, effects, settleLog,
                   stopCalls>>
    /\ UNCHANGED chatVars
    /\ UNCHANGED <<hostVars, owner>>

\* ---------------------------------------------------------------- callTool
\* The timer callTool creates for invocation i.
NewTimersEarly(i) == << [inv |-> i, remaining |-> TimeoutDelay \div 10, fired |-> FALSE] >>
NewTimers(i) == << [inv |-> i, remaining |-> TimeoutDelay, fired |-> FALSE] >>

\* JSON.stringify(request) + '\n': one JSON document, which holds no raw line
\* break, followed by the line terminator.
RequestLineUnterminated(id, toolName) ==
    [jsonrpc |-> "2.0", id |-> id, method |-> "call_tool", name |-> toolName,
     newline |-> FALSE]
RequestLine(id, toolName) ==
    [jsonrpc |-> "2.0", id |-> id, method |-> "call_tool", name |-> toolName,
     newline |-> TRUE]

\* this.process.stdin.write(...): the chunks one callTool hands to the stream,
\* which keeps them whole and in the order of the write calls.
RequestWritesTwice(id, toolName) == << RequestLine(id, toolName), RequestLine(id, toolName) >>
RequestWrites(id, toolName) == << RequestLine(id, toolName) >>

\* callTool(toolName, args), called by a chat request handler; requests are
\* served only after the listen callback has run start().
CallToolBy(r, toolName) ==
    /\ ~uncaught
    /\ process = "running"
    /\ ~ErrorEventDue
    /\ Len(promises) < MaxCalls
    /\ LET id == NextRequestId(requestId)
           i == Len(promises) + 1
       IN  /\ requestId' = id
           /\ callId' = Append(callId, id)
           /\ promises' = Append(promises, NewPromise)
           /\ pendingRequests' = MapSet(pendingRequests, NumId(id), i)
           /\ stdin' = stdin \o RequestWrites(id, toolName)
           /\ timers' = timers \o NewTimers(i)
           /\ elapsed' = Append(elapsed, 0)
           /\ resolverCalls' = Append(resolverCalls, 0)
           /\ effects' = Append(effects, 0)
           /\ lastEvent' = [type |-> "call", line |-> NoLine, inv |-> i]
    /\ owner' = Append(owner, r)
    /\ UNCHANGED <<process, uncaught, errorLogged, settleLog>>
    /\ UNCHANGED <<lifeVars, chatVars>>
    /\ UNCHANGED hostVars

\* a callTool whose chat request is not followed
CallTool(toolName) == CallToolBy(0, toolName)

\* --------------------------------------------------------- rl.on('line')
\* The handler body from JSON.parse to resolve(response): the map and the
\* promises it leaves behind, and whether it threw.
HandleLine(line) ==
    LET parsed == JSONParse(line)
        rid == ResponseId(parsed.value)
        thrown == [pend |-> pendingRequests, proms |-> promises,
                   calls |-> resolverCalls, threw |-> TRUE]
    IN  IF parsed.threw THEN thrown
        ELSE IF rid.threw THEN thrown
        ELSE IF MapHas(pendingRequests, rid.id)
             THEN LET i == MapGet(pendingRequests, rid.id)
                  IN  IF i = 0 THEN thrown   \* destructuring undefined throws
                      ELSE [pend |-> HandlerDelete(pendingRequests, rid.id),
                            proms |-> [promises EXCEPT
                                         ![i] = PromiseResolve(@, parsed.value)],
                            calls |-> [resolverCalls EXCEPT ![i] = @ + 1],
                            threw |-> FALSE]
             ELSE [thrown EXCEPT !.threw = FALSE]

\* The worker writes one line to its stdout and the handler runs on it.
OnLine(line) ==
    /\ ~uncaught
    /\ process = "running"
    /\ ~ErrorEventDue
    /\ LiveWorkers # {}
    /\ LET r == HandleLine(line)
       IN  /\ pendingRequests' = r.pend
           /\ promises' = r.proms
           /\ resolverCalls' = r.calls
           /\ uncaught' = Escapes(r.threw)
           /\ errorLogged' = (errorLogged \/ (r.threw /\ ~Escapes(r.threw)))
           /\ effects' = NoteEffects(line.id, r.pend, r.proms)
           /\ settleLog' = NoteSettled(r.proms)
    /\ lastEvent' = [type |-> "line", line |-> line, inv |-> 0]
    /\ UNCHANGED <<process, requestId, callId, timers, stdin, elapsed>>
    /\ UNCHANGED <<lifeVars, chatVars>>
    /\ UNCHANGED <<hostVars, owner>>

\* ------------------------------------------------------- timeout callback
\* The setTimeout callback of invocation timers[k].inv; Node never runs it
\* before its delay has passed, and may run it later.
OnTimeout(k) ==
    /\ ~uncaught
    /\ k \in DOMAIN timers
    /\ ~timers[k].fired
    /\ timers[k].remaining = 0
    /\ LET i == timers[k].inv
           key == NumId(callId[i])
           has == MapHas(pendingRequests, key)
           pend2 == IF has THEN TimeoutDelete(pendingRequests, key) ELSE pendingRequests
           proms2 == IF has
                     THEN [promises EXCEPT ![i] = PromiseReject(@, TimeoutMessage, elapsed[i])]
                     ELSE promises
       IN  /\ pendingRequests' = pend2
           /\ promises' = proms2
           /\ resolverCalls' = IF has THEN [resolverCalls EXCEPT ![i] = @ + 1]
                               ELSE resolverCalls
           /\ effects' = NoteEffects(key, pend2, proms2)
           /\ settleLog' = NoteSettled(proms2)
           /\ lastEvent' = [type |-> "timer", line |-> NoLine, inv |-> i]
    /\ timers' = [timers EXCEPT ![k].fired = TRUE]
    /\ UNCHANGED <<process, requestId, callId, stdin, uncaught, errorLogged, elapsed>>
    /\ UNCHANGED <<lifeVars, chatVars>>
    /\ UNCHANGED <<hostVars, owner>>

\* ------------------------------------------------------------------ clock
HasLiveTimer(i) == \E k \in DOMAIN timers : timers[k].inv = i /\ ~timers[k].fired

\* TickMs milliseconds pass.
Tick ==
    /\ ~uncaught
    /\ \E k \in DOMAIN timers : ~timers[k].fired
    /\ timers' = [k \in DOMAIN timers |->
                    IF timers[k].fired THEN timers[k]
                    ELSE [timers[k] EXCEPT !.remaining = Max(0, @ - TickMs)]]
    /\ elapsed' = [i \in DOMAIN elapsed |->
                    IF HasLiveTimer(i) THEN Min(ElapsedCap, elapsed[i] + TickMs)
                    ELSE elapsed[i]]
    /\ lastEvent' = [type |-> "tick", line |-> NoLine, inv |-> 0]
    /\ UNCHANGED <<process, requestId, pendingRequests, callId, promises, stdin,
                   uncaught, errorLogged, resolverCalls, effects, settleLog>>
    /\ UNCHANGED <<lifeVars, chatVars>>
    /\ UNCHANGED <<hostVars, owner>>

Next ==
    \/ Start
    \/ \E w \in 1..MaxStarts : OnProcessError(w)
    \/ \E w \in 1..MaxStarts : WorkerExit(w)
    \/ \E toolName \in ToolNames : CallTool(toolName)
    \/ \E line \in Lines : OnLine(line)
    \/ \E k \in 1..MaxCalls : OnTimeout(k)
    \/ Tick

Spec == Init /\ [][Next]_vars

\* The event loop runs a due timer callback and time passes; the worker is
\* under no obligation to answer.
FairSpec ==
    /\ Spec
    /\ WF_vars(Tick)
    /\ \A k \in 1..MaxCalls : WF_vars(OnTimeout(k))

\* ====================================================== korean-translator.js
\* A string is a sequence of tokens: a Hangul syllable is the token "U" and
\* its code point, and a piece of text put in by a replacement is one token.
\* The queries followed are made of Hangul syllables only.

\* chemicalTranslations, in the order of the object literal
chemicalTranslations == <<
    [korean |-> << "UBB3C" >>, english |-> << "water" >>],   \* line 4
    [korean |-> << "UC5D0", "UD0C4", "UC62C" >>, english |-> << "ethanol" >>],   \* line 5
    [korean |-> << "UBA54", "UD0C4", "UC62C" >>, english |-> << "methanol" >>],   \* line 6
    [korean |-> << "UC544", "UC138", "UD1A4" >>, english |-> << "acetone" >>],   \* line 7
    [korean |-> << "UBCA4", "UC820" >>, english |-> << "benzene" >>],   \* line 8
    [korean |-> << "UD1A8", "UB8E8", "UC5D4" >>, english |-> << "toluene" >>],   \* line 9
    [korean |-> << "UD5E5", "UC0B0" >>, english |-> << "hexane" >>],   \* line 10
    [korean |-> << "UC625", "UD0C4" >>, english |-> << "octane" >>],   \* line 11
    [korean |-> << "UC9C8", "UC18C" >>, english |-> << "nitrogen" >>],   \* line 12
    [korean |-> << "UC0B0", "UC18C" >>, english |-> << "oxygen" >>],   \* line 13
    [korean |-> << "UC774", "UC0B0", "UD654", "UD0C4", "UC18C" >>, english |-> << "carbon dioxide" >>],   \* line 14
    [korean |-> << "UC554", "UBAA8", "UB2C8", "UC544" >>, english |-> << "ammonia" >>],   \* line 15
    [korean |-> << "UC218", "UC18C" >>, english |-> << "hydrogen" >>],   \* line 16
    [korean |-> << "UD5EC", "UB968" >>, english |-> << "helium" >>],   \* line 17
    [korean |-> << "UC544", "UB974", "UACE4" >>, english |-> << "argon" >>],   \* line 18
    [korean |-> << "UBA54", "UD0C4" >>, english |-> << "methane" >>],   \* line 19
    [korean |-> << "UC5D0", "UD0C4" >>, english |-> << "ethane" >>],   \* line 20
    [korean |-> << "UD504", "UB85C", "UD310" >>, english |-> << "propane" >>],   \* line 21
    [korean |-> << "UBD80", "UD0C4" >>, english |-> << "butane" >>],   \* line 22
    [korean |-> << "UD39C", "UD0C4" >>, english |-> << "pentane" >>],   \* line 23
    [korean |-> << "UC5D0", "UD2F8", "UB80C" >>, english |-> << "ethylene" >>],   \* line 24
    [korean |-> << "UD504", "UB85C", "UD544", "UB80C" >>, english |-> << "propylene" >>],   \* line 25
    [korean |-> << "UC544", "UC138", "UD2F8", "UB80C" >>, english |-> << "acetylene" >>],   \* line 26
    [korean |-> << "UD669", "UC0B0" >>, english |-> << "sulfuric acid" >>],   \* line 27
    [korean |-> << "UC5FC", "UC0B0" >>, english |-> << "hydrochloric acid" >>],   \* line 28
    [korean |-> << "UC5FC", "UD654", "UB098", "UD2B8", "UB968" >>, english |-> << "sodium chloride" >>],   \* line 29
    [korean |-> << "UC18C", "UAE08" >>, english |-> << "sodium chloride" >>],   \* line 30
    [korean |-> << "UC54C", "UCF54", "UC62C" >>, english |-> << "ethanol" >>],   \* line 33
    [korean |-> << "UBA54", "UD2F8", "UC54C", "UCF54", "UC62C" >>, english |-> << "methanol" >>],   \* line 34
    [korean |-> << "UC5D0", "UD2F8", "UC54C", "UCF54", "UC62C" >>, english |-> << "ethanol" >>],   \* line 35
    [korean |-> << "UC774", "UC18C", "UD504", "UB85C", "UD310", "UC62C" >>, english |-> << "isopropanol" >>],   \* line 36
    [korean |-> << "UAE00", "UB9AC", "UC138", "UB864" >>, english |-> << "glycerol" >>],   \* line 37
    [korean |-> << "UD3EC", "UB984", "UC54C", "UB370", "UD788", "UB4DC" >>, english |-> << "formaldehyde" >>],   \* line 38
    [korean |-> << "UC544", "UC138", "UD2B8", "UC54C", "UB370", "UD788", "UB4DC" >>, english |-> << "acetaldehyde" >>],   \* line 39
    [korean |-> << "UC544", "UC138", "UD2B8", "UC0B0" >>, english |-> << "acetic acid" >>],   \* line 40
    [korean |-> << "UCD08", "UC0B0" >>, english |-> << "acetic acid" >>],   \* line 41
    [korean |-> << "UAC1C", "UBBF8", "UC0B0" >>, english |-> << "formic acid" >>],   \* line 42
    [korean |-> << "UC2DC", "UD2B8", "UB974", "UC0B0" >>, english |-> << "citric acid" >>],   \* line 43
    [korean |-> << "UAE00", "UB8E8", "UCF54", "UC2A4" >>, english |-> << "glucose" >>],   \* line 44
    [korean |-> << "UD3EC", "UB3C4", "UB2F9" >>, english |-> << "glucose" >>],   \* line 45
    [korean |-> << "UC790", "UB2F9" >>, english |-> << "sucrose" >>],   \* line 46
    [korean |-> << "UC124", "UD0D5" >>, english |-> << "sucrose" >>],   \* line 47
    [korean |-> << "UACFC", "UC0B0", "UD654", "UC218", "UC18C" >>, english |-> << "hydrogen peroxide" >>],   \* line 48
    [korean |-> << "UC694", "UC18C" >>, english |-> << "urea" >>],   \* line 49
    [korean |-> << "UAE00", "UB9AC", "UCF5C" >>, english |-> << "ethylene glycol" >>],   \* line 50
    [korean |-> << "UD398", "UB180" >>, english |-> << "phenol" >>],   \* line 51
    [korean |-> << "UB098", "UD504", "UD0C8", "UB80C" >>, english |-> << "naphthalene" >>],   \* line 52
    [korean |-> << "UC548", "UD2B8", "UB77C", "UC13C" >>, english |-> << "anthracene" >>]   \* line 53
    >>

\* propertyTranslations, in the order of the object literal
propertyTranslations == <<
    [korean |-> << "UBC00", "UB3C4" >>, english |-> << "density" >>],   \* line 58
    [korean |-> << "UC810", "UB3C4" >>, english |-> << "viscosity" >>],   \* line 59
    [korean |-> << "UC810", "UC131" >>, english |-> << "viscosity" >>],   \* line 60
    [korean |-> << "UC5F4", "UC6A9", "UB7C9" >>, english |-> << "heat_capacity" >>],   \* line 61
    [korean |-> << "UBE44", "UC5F4" >>, english |-> << "heat_capacity" >>],   \* line 62
    [korean |-> << "UC99D", "UAE30", "UC555" >>, english |-> << "vapor_pressure" >>],   \* line 63
    [korean |-> << "UC5D4", "UD0C8", "UD53C" >>, english |-> << "enthalpy" >>],   \* line 64
    [korean |-> << "UC5D4", "UD2B8", "UB85C", "UD53C" >>, english |-> << "entropy" >>],   \* line 65
    [korean |-> << "UAE41", "UC2A4", "UC5D0", "UB108", "UC9C0" >>, english |-> << "gibbs_energy" >>],   \* line 66
    [korean |-> << "UAE41", "UC2A4", "UC790", "UC720", "UC5D0", "UB108", "UC9C0" >>, english |-> << "gibbs_energy" >>],   \* line 67
    [korean |-> << "UD5EC", "UB984", "UD640", "UCE20", "UC5D0", "UB108", "UC9C0" >>, english |-> << "helmholtz_energy" >>],   \* line 68
    [korean |-> << "UB0B4", "UBD80", "UC5D0", "UB108", "UC9C0" >>, english |-> << "internal_energy" >>],   \* line 69
    [korean |-> << "UC5F4", "UC804", "UB3C4", "UB3C4" >>, english |-> << "thermal_conductivity" >>],   \* line 70
    [korean |-> << "UC5F4", "UC804", "UB3C4", "UC728" >>, english |-> << "thermal_conductivity" >>],   \* line 71
    [korean |-> << "UD45C", "UBA74", "UC7A5", "UB825" >>, english |-> << "surface_tension" >>],   \* line 72
    [korean |-> << "UC784", "UACC4", "UC628", "UB3C4" >>, english |-> << "critical_temperature" >>],   \* line 73
    [korean |-> << "UC784", "UACC4", "UC555", "UB825" >>, english |-> << "critical_pressure" >>],   \* line 74
    [korean |-> << "UB053", "UB294", "UC810" >>, english |-> << "boiling_point" >>],   \* line 75
    [korean |-> << "UBE44", "UC810" >>, english |-> << "boiling_point" >>],   \* line 76
    [korean |-> << "UB179", "UB294", "UC810" >>, english |-> << "melting_point" >>],   \* line 77
    [korean |-> << "UC735", "UC810" >>, english |-> << "melting_point" >>],   \* line 78
    [korean |-> << "UBD84", "UC790", "UB7C9" >>, english |-> << "molecular_weight" >>],   \* line 79
    [korean |-> << "UBAB0", "UC9C8", "UB7C9" >>, english |-> << "molecular_weight" >>],   \* line 80
    [korean |-> << "UC99D", "UBC1C", "UC5F4" >>, english |-> << "heat_vaporization" >>],   \* line 81
    [korean |-> << "UAE30", "UD654", "UC5F4" >>, english |-> << "heat_vaporization" >>]   \* line 82
    >>

\* the literal patterns of the chain of replace calls (lines 116-120)
phraseReplacements == <<
    [korean |-> << "UC5D0", "UC11C" >>, english |-> << " at" >>],
    [korean |-> << "UC77C", "UB54C" >>, english |-> << " at" >>],
    [korean |-> << "UACC4", "UC0B0" >>, english |-> << "calculate" >>],
    [korean |-> << "UAD6C", "UD558" >>, english |-> << "calculate" >>],
    [korean |-> << "UC54C", "UB824" >>, english |-> << "tell me" >>]
    >>

\* /(?:eun|neun|i|ga)\s*(?:eolma|mwo|mueot)/g on a string without white
\* space: a particle directly followed by one of the three question words
Particles == { "UC740", "UB294", "UC774", "UAC00" }
QuestionWords == << << "UC5BC", "UB9C8" >>, << "UBB50" >>, << "UBB34", "UC5C7" >> >>

StartsWith(q, p, pat) ==
    /\ p + Len(pat) - 1 <= Len(q)
    /\ SubSeq(q, p, p + Len(pat) - 1) = pat

\* String.prototype.replace with a global pattern that is a literal text:
\* the matches are found from left to right and do not overlap; from[p] is
\* what the text from position p on becomes
ReplaceAll(q, pat, rep) ==
    LET from[p \in 1..(Len(q) + 1)] ==
            IF p > Len(q) THEN << >>
            ELSE IF StartsWith(q, p, pat)
                 THEN rep \o from[p + Len(pat)]
                 ELSE << q[p] >> \o from[p + 1]
    IN  from[1]

\* for (const [korean, english] of Object.entries(table)): one replace per
\* entry, each on the result of the one before; after[n] is the string
\* after the first n entries
ReplaceEach(q, table) ==
    LET after[n \in 0..Len(table)] ==
            IF n = 0 THEN q
            ELSE ReplaceAll(after[n - 1], table[n].korean, table[n].english)
    IN  after[Len(table)]

\* the length of the match of the particle pattern at p, 0 if there is none
ParticleMatch(q, p) ==
    IF q[p] \in Particles /\ \E w \in DOMAIN QuestionWords : StartsWith(q, p + 1, QuestionWords[w])
    THEN 1 + Len(QuestionWords[CHOOSE w \in DOMAIN QuestionWords : StartsWith(q, p + 1, QuestionWords[w])])
    ELSE 0

RECURSIVE DropParticles(_, _)
DropParticles(q, p) ==
    IF p > Len(q) THEN << >>
    ELSE IF ParticleMatch(q, p) > 0
         THEN DropParticles(q, p + ParticleMatch(q, p))
         ELSE << q[p] >> \o DropParticles(q, p + 1)

\* the chain of replace calls of lines 110-123 on a string of Hangul
\* syllables and replacement texts.  The temperature patterns (110-112) need
\* a digit and the pattern of line 115 needs white space after the syllable
\* it starts with: no such string holds either, so these calls return it.
ReplacePhrases(translatedQuery) ==
    DropParticles(ReplaceEach(translatedQuery, phraseReplacements), 1)

\* the queries followed: every key of the two tables and a few questions
Sentences == {
    << "UBB3C", "UC740", "UC5BC", "UB9C8" >>,
    << "UBB3C", "UC5D0", "UC11C", "UBC00", "UB3C4", "UACC4", "UC0B0" >>,
    << "UC5D0", "UD0C4", "UC62C", "UC810", "UB3C4", "UC54C", "UB824" >>,
    << "UC0B0", "UC18C", "UC77C", "UB54C", "UC5D4", "UD0C8", "UD53C", "UAD6C", "UD558" >>,
    << "UBA54", "UD0C4", "UC774", "UBB50" >>,
    << "UC218", "UC18C", "UAC00", "UBB34", "UC5C7" >>
    }
Queries ==
    {chemicalTranslations[n].korean : n \in DOMAIN chemicalTranslations}
    \cup {propertyTranslations[n].korean : n \in DOMAIN propertyTranslations}
    \cup Sentences

\* let translatedQuery = koreanQuery, before the first loop
Called(koreanQuery) ==
    [query |-> koreanQuery, translatedQuery |-> koreanQuery,
     pc |-> "chemicals", n |-> 1]

TranslateInit ==
    /\ BridgeInit
    /\ HostInit
    /\ variant = "server-openai"
    /\ translation \in {Called(q) : q \in Queries}

TranslateFrame ==
    /\ UNCHANGED <<process, requestId, pendingRequests, callId, promises, timers,
                   stdin, uncaught, errorLogged, elapsed, resolverCalls, effects,
                   settleLog, lastEvent, owner>>
    /\ UNCHANGED <<lifeVars, chatVars>>
    /\ UNCHANGED <<variant, server, stderrLogged>>

\* one iteration of a for loop over the entries of a table, and the move to
\* what follows the loop after its last entry
LoopStep(table, after) ==
    LET entry == table[translation.n]
    IN  translation' =
            [translation EXCEPT
                !.translatedQuery = ReplaceAll(@, entry.korean, entry.english),
                !.n = IF translation.n < Len(table) THEN @ + 1 ELSE 1,
                !.pc = IF translation.n < Len(table) THEN @ ELSE after]

\* the loop over chemicalTranslations (lines 98-101)
TranslateChemical ==
    /\ translation.pc = "chemicals"
    /\ LoopStep(chemicalTranslations, "properties")
    /\ TranslateFrame

\* the loop over propertyTranslations (lines 104-107)
TranslateProperty ==
    /\ translation.pc = "properties"
    /\ LoopStep(propertyTranslations, "phrases")
    /\ TranslateFrame

\* lines 110-125: the remaining replace calls and the return
TranslateReturn ==
    /\ translation.pc = "phrases"
    /\ translation' =
           [translation EXCEPT !.translatedQuery = ReplacePhrases(@),
                               !.pc = "returned"]
    /\ TranslateFrame

\* what translateQuery returned, once it has
Returned == translation.pc = "returned"

TranslateNext ==
    \/ TranslateChemical
    \/ TranslateProperty
    \/ TranslateReturn


TranslateSpec == TranslateInit /\ [][TranslateNext]_vars

\* --------------------------------------------- callTool before any start()
\* this.process.stdin with this.process still null: a TypeError
NullProcessMessage == "Cannot read properties of null (reading 'stdin')"

\* callTool on a manager whose start() has not been called: the id is taken
\* and the entry registered, then the write throws inside the promise
\* executor, which rejects the promise; setTimeout is never reached.
CallToolNoProcess(toolName) ==
    /\ ~uncaught
    /\ process = "null"
    /\ Len(promises) < MaxCalls
    /\ LET id == NextRequestId(requestId)
           i == Len(promises) + 1
       IN  /\ requestId' = id
           /\ callId' = Append(callId, id)
           /\ pendingRequests' = MapSet(pendingRequests, NumId(id), i)
           /\ promises' = Append(promises,
                                 [state |-> "rejected", value |-> NoLine,
                                  reason |-> NullProcessMessage, at |-> 0])
           /\ settleLog' = Append(settleLog, i)
           /\ lastEvent' = [type |-> "call", line |-> NoLine, inv |-> i]
    /\ elapsed' = Append(elapsed, 0)
    /\ resolverCalls' = Append(resolverCalls, 0)
    /\ effects' = Append(effects, 0)
    /\ owner' = Append(owner, 0)
    /\ UNCHANGED <<process, timers, stdin, uncaught, errorLogged>>
    /\ UNCHANGED <<lifeVars, chatVars>>
    /\ UNCHANGED hostVars

\* The manager with callTool callable before start() as well as after.
ClassNext ==
    \/ Next
    \/ \E toolName \in ToolNames : CallToolNoProcess(toolName)

ClassSpec == Init /\ [][ClassNext]_vars

\* ------------------------------------------------ the worker's error stream
\* what the worker may write there: a traceback, or text that looks like a
\* response line; each of them arrives once
StderrChunks == {"Traceback (most recent call last):",
                 "{\"id\":1,\"result\":{\"output\":\"x\"}}"}

StderrPromisesRejected(ps, data) ==
    [i \in DOMAIN ps |->
        IF ps[i].state = "pending"
        THEN [ps[i] EXCEPT !.state = "rejected", !.reason = data]
        ELSE ps[i]]

\* the promises after the 'data' handler of this.process.stderr has run:
\* the handler has one statement, the console.error
StderrPromises(ps, data) == ps

\* this.process.stderr.on('data', ...): console.error('MCP Server stderr:',
\* data.toString())
OnStderr(data) ==
    /\ ~uncaught
    /\ process = "running"
    /\ LiveWorkers # {}
    /\ data \notin stderrLogged
    /\ stderrLogged' = stderrLogged \cup {data}
    /\ promises' = StderrPromises(promises, data)
    /\ UNCHANGED <<process, requestId, pendingRequests, callId, timers, stdin,
                   uncaught, errorLogged, elapsed, resolverCalls, effects,
                   settleLog, lastEvent, owner>>
    /\ UNCHANGED <<lifeVars, chatVars>>
    /\ UNCHANGED <<variant, server, translation>>

\* The bridge with the worker's error stream followed.
DiagNext ==
    \/ Next
    \/ \E data \in StderrChunks : OnStderr(data)

DiagSpec == Init /\ [][DiagNext]_vars

\* ------------------------------------------ the tool loop of a chat request
\* the chat requests followed; 0 owns the invocations made outside of them
ChatRequests == {1, 2}

LoopMayCallNoAwait(r) == TRUE

\* for (const toolCall of ...) { ... await mcpServer.callTool(...) ... }: the
\* handler of request r reaches its next callTool only when the promises of
\* its earlier ones have settled
LoopMayCall(r) ==
    \A i \in Invocations : owner[i] = r => promises[i].state # "pending"

\* one iteration of the loop of chat request r, up to its await
LoopCall(r, toolName) ==
    /\ LoopMayCall(r)
    /\ CallToolBy(r, toolName)

\* The bridge called from the tool loops of the chat requests.
LoopNext ==
    \/ Start
    \/ \E w \in 1..MaxStarts : OnProcessError(w)
    \/ \E w \in 1..MaxStarts : WorkerExit(w)
    \/ \E r \in ChatRequests, toolName \in ToolNames : LoopCall(r, toolName)
    \/ \E line \in Lines : OnLine(line)
    \/ \E k \in 1..MaxCalls : OnTimeout(k)
    \/ Tick

LoopSpec == Init /\ [][LoopNext]_vars

\* ====================================================== start() and stop()
\* The manager taken on its own: start() and stop() called in any order by
\* whoever holds it, between the events of the workers it spawned.

\* start(), wherever it is called from
ApiStart ==
    /\ ~uncaught
    /\ ~ErrorEventDue
    /\ Len(workers) < MaxStarts
    /\ \E ok \in BOOLEAN : DoStart(ok)

\* if (this.process) { ... }
StopGuardMissing(p) == TRUE
StopGuard(p) == p # "null"

\* this.process.kill(): the child object sends the termination signal while
\* the child is running; once the child has exited, or was never launched,
\* it sends nothing.
Kill(worker) ==
    IF worker.state = "alive" THEN [worker EXCEPT !.signals = @ + 1] ELSE worker

\* stop(); this.process stays what it was.  Calling kill on null throws.
Stop ==
    /\ ~uncaught
    /\ ~ErrorEventDue
    /\ stopCalls < MaxStops
    /\ stopCalls' = stopCalls + 1
    /\ IF StopGuard(process)
       THEN IF process = "null"
            THEN uncaught' = TRUE /\ workers' = workers
            ELSE /\ workers' = [workers EXCEPT ![Len(workers)] = Kill(@)]
                 /\ UNCHANGED uncaught
       ELSE UNCHANGED <<workers, uncaught>>
    /\ lastEvent' = [type |-> "stop", line |-> NoLine, inv |-> 0]
    /\ UNCHANGED <<process, requestId, pendingRequests, callId, promises, timers, stdin,
                   errorLogged, elapsed, resolverCalls, effects, settleLog>>
    /\ UNCHANGED chatVars
    /\ UNCHANGED <<hostVars, owner>>

ApiNext ==
    \/ ApiStart
    \/ Stop
    \/ \E w \in 1..MaxStarts : OnProcessError(w)
    \/ \E w \in 1..MaxStarts : WorkerExit(w)

ApiSpec == Init /\ [][ApiNext]_vars

\* ============================================== result normalization (chat)
\* The tool loop of app.post('/api/chat') turns the value a callTool promise
\* resolved with into one entry of toolCallResults.

\* --------------------------------------------------------- JavaScript values
\* A value is undefined, null, a string, a number, a mapping or an array.  A
\* string is held as the sequence of its lexical pieces (below), a mapping
\* and an array as their members by key ("0", "1", ... for an array).
NoMembers == << >>
Undefined == [t |-> "undefined", s |-> << >>, m |-> NoMembers]
Null == [t |-> "null", s |-> << >>, m |-> NoMembers]
Str(pieces) == [t |-> "string", s |-> pieces, m |-> NoMembers]
Num(digits) == [t |-> "number", s |-> << digits >>, m |-> NoMembers]
Obj(members) == [t |-> "object", s |-> << >>, m |-> members]
Arr(members) == [t |-> "array", s |-> << >>, m |-> members]

\* The pieces of a text: a quoted string literal with its quotes ("str", v the
\* characters between them, escapes included), a punctuation character, a
\* number literal, blank space, or any other run of characters ("raw").
S(v) == [k |-> "str", v |-> v]
P(v) == [k |-> "punct", v |-> v]
N(v) == [k |-> "num", v |-> v]
W(v) == [k |-> "raw", v |-> v]
Blank == [k |-> "ws", v |-> " "]

\* The text of a string value whose characters are v (no pieces when empty).
Text(v) == IF v = "" THEN << >> ELSE << W(v) >>

\* v.key, and v?.key where v may be undefined: a member of a mapping or an
\* array, undefined for everything else read here.
Member(v, key) ==
    IF v.t \in {"object", "array"} /\ key \in DOMAIN v.m THEN v.m[key] ELSE Undefined

\* ToBoolean: undefined, null, the empty string and 0 are falsy.
Truthy(v) ==
    CASE v.t \in {"undefined", "null"} -> FALSE
      [] v.t = "string" -> v.s # << >>
      [] v.t = "number" -> v.s # << "0" >>
      [] OTHER -> TRUE

\* a || b
Or(a, b) == IF Truthy(a) THEN a ELSE b

\* content.includes('"property":'): the marker is the quoted word property
\* immediately followed by a colon.
Marker == << S("property"), P(":") >>

IncludesAlways(text, part) == TRUE
Includes(text, part) ==
    \E i \in 1..(Len(text) - Len(part) + 1) :
        SubSeq(text, i, i + Len(part) - 1) = part

\* ---------------------------------------------------------------- JSON.parse
IndexKey == << "0", "1", "2" >>

ParseFail == [ok |-> FALSE, next |-> 0, value |-> Undefined]

\* the first position from p on that holds no blank space
SkipWs(text, p) ==
    LET rest == {q \in p..Len(text) : text[q].k # "ws"}
    IN  IF rest = {} THEN Len(text) + 1
        ELSE CHOOSE q \in rest : \A r \in rest : q <= r

RECURSIVE ParseValue(_, _), ParseMembers(_, _, _), ParseElements(_, _, _)

\* One JSON value starting at position p: a string, a number, { members }
\* or [ elements ].
ParseValue(text, p) ==
    LET q == SkipWs(text, p)
    IN  IF q > Len(text) THEN ParseFail
        ELSE LET tok == text[q]
                 q2 == SkipWs(text, q + 1)
             IN  CASE tok.k = "str" ->
                        [ok |-> TRUE, next |-> q + 1, value |-> Str(Text(tok.v))]
                   [] tok.k = "num" ->
                        [ok |-> TRUE, next |-> q + 1, value |-> Num(tok.v)]
                   [] tok = P("{") ->
                        IF q2 <= Len(text) /\ text[q2] = P("}")
                        THEN [ok |-> TRUE, next |-> q2 + 1, value |-> Obj(NoMembers)]
                        ELSE ParseMembers(text, q + 1, NoMembers)
                   [] tok = P("[") ->
                        IF q2 <= Len(text) /\ text[q2] = P("]")
                        THEN [ok |-> TRUE, next |-> q2 + 1, value |-> Arr(NoMembers)]
                        ELSE ParseElements(text, q + 1, NoMembers)
                   [] OTHER -> ParseFail

\* "key" : value , ... }   (a later member replaces an earlier one of its key)
ParseMembers(text, p, acc) ==
    LET q == SkipWs(text, p)
    IN  IF q > Len(text) \/ text[q].k # "str" THEN ParseFail
        ELSE LET c == SkipWs(text, q + 1)
             IN  IF c > Len(text) \/ text[c] # P(":") THEN ParseFail
                 ELSE LET v == ParseValue(text, c + 1)
                          e == SkipWs(text, v.next)
                          acc2 == (text[q].v :> v.value) @@ acc
                      IN  IF ~v.ok \/ e > Len(text) THEN ParseFail
                          ELSE IF text[e] = P("}")
                               THEN [ok |-> TRUE, next |-> e + 1, value |-> Obj(acc2)]
                          ELSE IF text[e] = P(",")
                               THEN ParseMembers(text, e + 1, acc2)
                          ELSE ParseFail

\* value , ... ]
ParseElements(text, p, acc) ==
    LET v == ParseValue(text, p)
        e == SkipWs(text, v.next)
        n == Cardinality(DOMAIN acc) + 1
        acc2 == (IndexKey[n] :> v.value) @@ acc
    IN  IF ~v.ok \/ e > Len(text) \/ n > Len(IndexKey) THEN ParseFail
        ELSE IF text[e] = P("]")
             THEN [ok |-> TRUE, next |-> e + 1, value |-> Arr(acc2)]
        ELSE IF text[e] = P(",")
             THEN ParseElements(text, e + 1, acc2)
        ELSE ParseFail

\* JSON.parse(text): the decoded value, or a SyntaxError when the text is no
\* single JSON document.
JSONParseText(text) ==
    LET v == ParseValue(text, 1)
    IN  IF v.ok /\ SkipWs(text, v.next) > Len(text)
        THEN [threw |-> FALSE, value |-> v.value]
        ELSE [threw |-> TRUE, value |-> Undefined]

\* ------------------------------------------------------ worker output texts
\* 997.0 kg/m3
PlainText == << W("997.0 kg/m3") >>
EmptyText == << >>
\* {"property": "density", "formatted_text": "Density: 997.0 kg/m3", "value": 997.0}
DocText ==
    << P("{"), S("property"), P(":"), Blank, S("density"), P(","), Blank,
       S("formatted_text"), P(":"), Blank, S("Density: 997.0 kg/m3"), P(","), Blank,
       S("value"), P(":"), Blank, N("997.0"), P("}") >>
\* {"property": "density", "value": 997.0}
NoFormattedText ==
    << P("{"), S("property"), P(":"), Blank, S("density"), P(","), Blank,
       S("value"), P(":"), Blank, N("997.0"), P("}") >>
\* {"property": "density", "formatted_text": ""}
EmptyFormattedText ==
    << P("{"), S("property"), P(":"), Blank, S("density"), P(","), Blank,
       S("formatted_text"), P(":"), Blank, S(""), P("}") >>
\* {"property": "density", "formatted_text": 997.0}
NumberFormattedText ==
    << P("{"), S("property"), P(":"), Blank, S("density"), P(","), Blank,
       S("formatted_text"), P(":"), Blank, N("997.0"), P("}") >>
\* {"property" : "density", "formatted_text" : "Density: 997.0 kg/m3"}
SpacedDocText ==
    << P("{"), S("property"), Blank, P(":"), Blank, S("density"), P(","), Blank,
       S("formatted_text"), Blank, P(":"), Blank, S("Density: 997.0 kg/m3"), P("}") >>
\* The "property": density is unknown
MentionText == << W("The "), S("property"), P(":"), W(" density is unknown") >>
\* [{"property": "density"}]
ArrayText ==
    << P("["), P("{"), S("property"), P(":"), Blank, S("density"), P("}"), P("]") >>
\* {"data": {"property": "density"}, "formatted_text": "Density: 997.0 kg/m3"}
NestedText ==
    << P("{"), S("data"), P(":"), Blank, P("{"), S("property"), P(":"), Blank,
       S("density"), P("}"), P(","), Blank,
       S("formatted_text"), P(":"), Blank, S("Density: 997.0 kg/m3"), P("}") >>
\* {"note": "the \"property\": x"}
QuotedText ==
    << P("{"), S("note"), P(":"), Blank, S("the \\\"property\\\": x"), P("}") >>
\* {"property": "density", "formatted_text": "Dens
TruncatedText ==
    << P("{"), S("property"), P(":"), Blank, S("density"), P(","), Blank,
       S("formatted_text"), P(":"), Blank, W("\"Dens") >>

OutputTexts ==
    << PlainText, EmptyText, DocText, NoFormattedText, EmptyFormattedText,
       NumberFormattedText, SpacedDocText, MentionText, ArrayText, NestedText,
       QuotedText, TruncatedText >>

\* The decoded response a callTool promise resolves with (its jsonrpc and id
\* members play no part here).
OutputResponse(output) == Obj("result" :> Obj("output" :> output))
\* {"result": {"output": {"value": 997.0}}}
MappingOutput == OutputResponse(Obj("value" :> Num("997.0")))
\* {"result": {}}
NoOutput == Obj("result" :> Obj(NoMembers))
\* {"result": "ok"}
TextResult == Obj("result" :> Str(Text("ok")))
\* {"error": {"message": "not found"}}
ErrorResponse == Obj("error" :> Obj("message" :> Str(Text("not found"))))

Responses ==
    [n \in DOMAIN OutputTexts |-> OutputResponse(Str(OutputTexts[n]))]
    \o << MappingOutput, NoOutput, TextResult, ErrorResponse >>

\* -------------------------------------------------------------- tool loop
\* 'No result returned'
NoResultText == Text("No result returned")

\* catch (e) { console.error('Failed to parse JSON data:', e) }: the content
\* stays as it was, no structured data, and the error goes no further.
ParseErrorEscapes(c) == [content |-> c, structuredData |-> Null, threw |-> TRUE]
ParseErrorKeepsText(c) == [content |-> c, structuredData |-> c, threw |-> FALSE]
ParseErrorCaught(c) == [content |-> c, structuredData |-> Null, threw |-> FALSE]

\* jsonData.formatted_text || content
ContentKept(jsonData, c) == c
FormattedOrContent(jsonData, c) == Or(Member(jsonData, "formatted_text"), c)

\* From `let content = ...` to the values pushed: content, structuredData,
\* and whether an exception left the block.
Normalize(result) ==
    LET output == Member(Member(result, "result"), "output")
        content == Or(Or(output, Member(result, "result")), Str(NoResultText))
    IN  IF content.t = "string" /\ Includes(content.s, Marker)
        THEN LET parsed == JSONParseText(content.s)
             IN  IF parsed.threw THEN ParseErrorCaught(content)
                 ELSE [content |-> FormattedOrContent(parsed.value, content),
                       structuredData |-> parsed.value,
                       threw |-> FALSE]
        ELSE [content |-> content, structuredData |-> Null, threw |-> FALSE]

\* `Error: ${error.message}`, pushed by the catch of the tool call, without a
\* structuredData member
ToolErrorResult ==
    [content |-> Str(Text("Error: Unexpected token")), structuredData |-> Undefined,
     threw |-> TRUE]

\* One pass of the loop body over a tool call whose callTool promise
\* resolved with `result`.
ToolCallReturns(result) ==
    /\ Len(toolCallResults) < MaxToolCalls
    /\ toolResponses' = Append(toolResponses, result)
    /\ toolCallResults' =
         Append(toolCallResults,
                IF Normalize(result).threw THEN ToolErrorResult ELSE Normalize(result))
    /\ UNCHANGED <<process, requestId, pendingRequests, callId, promises, timers, stdin,
                   uncaught, errorLogged, elapsed, resolverCalls, effects, settleLog,
                   lastEvent>>
    /\ UNCHANGED lifeVars
    /\ UNCHANGED <<chat, http>>
    /\ UNCHANGED <<hostVars, owner>>

\* A chat request whose tool calls all come back resolved, over every shape
\* of response.
ChatNext == \E n \in DOMAIN Responses : ToolCallReturns(Responses[n])

ChatSpec == Init /\ [][ChatNext]_vars

\* ===================================================== POST /api/chat handlers
\* The three backends: server-openai.js, server-enhanced.js and server.js.
Variants == {"server-openai", "server-enhanced", "server"}

\* req.body.message: absent, or a string (a sequence of tokens as in
\* translateQuery)
NoMessage == [given |-> FALSE, text |-> << >>]
Message(text) == [given |-> TRUE, text |-> text]
Messages ==
    {NoMessage,
     Message(<< >>),
     Message(<< "density of water at 25 C" >>),
     Message(<< "UBB3C", "UC5D0", "UC11C", "UBC00", "UB3C4", "UACC4", "UC0B0" >>),
     Message(<< "UC774", "UBB50" >>)}
\* req.body.language
Languages == {"undefined", "ko", "en"}
\* what the regular expressions of server-enhanced.js make of the message
Routes == {"calculation", "incomplete", "components", "properties", "general"}

\* the syllables of the queries followed
Syllables == UNION {{q[p] : p \in DOMAIN q} : q \in Queries}
\* /[가-힣]/.test(message); an absent message is tested as the text
\* "undefined"
HasHangul(message) == \E p \in DOMAIN message.text : message.text[p] \in Syllables

\* !message
Falsy(message) == ~message.given \/ message.text = << >>

\* the values callTool promises resolve with in the requests followed
HandlerResponses ==
    {OutputResponse(Str(PlainText)), OutputResponse(Str(DocText)), NoOutput, ErrorResponse}

\* what the mock callMCPServer of server.js returns
MockOutputs ==
    {"density of water at T=298.15K, P=101325Pa: 997.0 kg/m3",
     "Available components: water, ethanol, methanol, benzene, toluene",
     "Unknown tool call"}

MessageRequired == [status |-> 400, error |-> "Message is required", response |-> "none"]
FailedToProcess == [status |-> 500, error |-> "Failed to process request", response |-> "none"]
\* res.json({ response ... }): status 200
Ok(response) == [status |-> 200, error |-> "none", response |-> response]

HandlerInit ==
    /\ BridgeInit
    /\ HostInit
    /\ variant \in Variants
    /\ translation = NoTranslation

HandlerFrame ==
    /\ UNCHANGED <<process, requestId, pendingRequests, callId, promises, timers,
                   stdin, uncaught, errorLogged, elapsed, resolverCalls, effects,
                   settleLog, lastEvent, owner>>
    /\ UNCHANGED lifeVars
    /\ UNCHANGED <<variant, server, stderrLogged>>

\* the catch of the handler's outer try: status 500
Fails(cause) ==
    /\ chat' = [chat EXCEPT !.pc = "done", !.fault = cause]
    /\ http' = Append(http, FailedToProcess)

\* res.json / res.status(...).json: the response is sent and the handler ends
Responds(response) ==
    /\ chat' = [chat EXCEPT !.pc = "done"]
    /\ http' = Append(http, response)

\* if (language === 'ko' || /[hangul]/.test(message))
TranslateGuard(message, language) == language = "ko" \/ HasHangul(message)

\* if (!message) return res.status(400)...; otherwise what the handler does
\* up to its first await
CheckMessage(c) ==
    IF Falsy(c.message)
    THEN /\ chat' = [c EXCEPT !.pc = "done"]
         /\ http' = Append(http, MessageRequired)
    ELSE /\ http' = http
         /\ chat' =
              IF variant = "server-enhanced"
              THEN CASE c.route = "general" ->
                            [c EXCEPT !.pc = "llm", !.llmCalls = @ + 1]
                     [] c.route = "incomplete" ->
                            [c EXCEPT !.pc = "respond"]
                     [] OTHER ->
                            [c EXCEPT !.pc = "awaiting", !.forwarded = @ + 1]
              ELSE [c EXCEPT !.pc = "llm", !.llmCalls = @ + 1]

\* app.post('/api/chat', ...) is entered with a request body
ChatPost(message, language, route) ==
    /\ chat.pc = "none"
    /\ LET c == [chat EXCEPT !.posted = message, !.message = message, !.language = language,
                             !.route = IF variant = "server-enhanced" THEN route ELSE "none"]
       IN  IF variant = "server-openai" /\ TranslateGuard(message, language)
           THEN IF message.given
                THEN \* translateQuery(message)
                     /\ chat' = [c EXCEPT !.pc = "translating"]
                     /\ translation' = Called(message.text)
                     /\ http' = http
                ELSE \* translateQuery(undefined): undefined.replace throws
                     /\ chat' = [c EXCEPT !.pc = "done", !.fault = "translate"]
                     /\ http' = Append(http, FailedToProcess)
                     /\ translation' = translation
           ELSE /\ CheckMessage(c)
                /\ translation' = translation
    /\ UNCHANGED <<toolResponses, toolCallResults>>
    /\ HandlerFrame

\* message = translateQuery(message) has returned
Translated ==
    /\ chat.pc = "translating"
    /\ Returned
    /\ CheckMessage([chat EXCEPT !.message = Message(translation.translatedQuery)])
    /\ UNCHANGED <<toolResponses, toolCallResults, translation>>
    /\ HandlerFrame

\* server-enhanced.js: the message names no component or no property
NeedsMoreInformation ==
    /\ chat.pc = "respond"
    /\ Responds(Ok("I need more information"))
    /\ UNCHANGED <<toolResponses, toolCallResults, translation>>
    /\ HandlerFrame

\* the first completion arrives, asking for n tool calls
Completion(n) ==
    /\ chat.pc = "llm"
    /\ variant = "server-enhanced" => n = 0
    /\ IF n = 0
       THEN Responds(Ok("content"))
       ELSE /\ chat' = [chat EXCEPT !.pc = "loop", !.toolCalls = n]
            /\ http' = http
    /\ UNCHANGED <<toolResponses, toolCallResults, translation>>
    /\ HandlerFrame

\* a call of the completion API throws
CompletionFails ==
    /\ chat.pc \in {"llm", "final", "followup"}
    /\ Fails("llm")
    /\ UNCHANGED <<toolResponses, toolCallResults, translation>>
    /\ HandlerFrame

\* server-openai.js, line 263: JSON.parse(toolCall.function.arguments)
\* throws, outside the try of the tool call
ArgumentsMalformed ==
    /\ variant = "server-openai"
    /\ chat.pc = "loop"
    /\ Fails("arguments")
    /\ UNCHANGED <<toolResponses, toolCallResults, translation>>
    /\ HandlerFrame

\* server-openai.js, line 267: mcpServer.callTool(functionName, functionArgs)
InvokeTool ==
    /\ variant = "server-openai"
    /\ chat.pc = "loop"
    /\ chat' = [chat EXCEPT !.pc = "awaiting", !.forwarded = @ + 1]
    /\ UNCHANGED <<http, toolResponses, toolCallResults, translation>>
    /\ HandlerFrame

\* after toolCallResults.push(...): the next tool call, or the final
\* completion once the loop has ended
AfterPush(c) ==
    IF Len(toolCallResults) + 1 < c.toolCalls
    THEN [c EXCEPT !.pc = "loop"]
    ELSE [c EXCEPT !.pc = "final", !.llmCalls = @ + 1]

ToolCaughtFailsRequest(c) == [c EXCEPT !.pc = "failing"]

\* catch (error) of the tool call: the handler goes on
ToolCaught(c) == c

\* `Error: ${error.message}` for the timeout of callTool
ToolRejection ==
    [content |-> Str(Text("Error: MCP server timeout")), structuredData |-> Undefined,
     threw |-> TRUE]

\* the awaited callTool promise resolves with `result`
ToolResolved(result) ==
    /\ chat.pc = "awaiting"
    /\ toolResponses' = Append(toolResponses, result)
    /\ IF variant = "server-openai"
       THEN /\ toolCallResults' =
                 Append(toolCallResults,
                        IF Normalize(result).threw THEN ToolErrorResult ELSE Normalize(result))
            /\ chat' = AfterPush(chat)
            /\ http' = http
       ELSE /\ toolCallResults' = toolCallResults
            /\ Responds(Ok(IF Truthy(Member(Member(result, "result"), "output")) THEN "output"
                           ELSE IF chat.route = "calculation"
                                THEN IF Truthy(Member(result, "error")) THEN "could not calculate"
                                     ELSE "empty"
                                ELSE "could not retrieve"))
    /\ UNCHANGED translation
    /\ HandlerFrame

\* the awaited callTool promise is rejected (the timeout)
ToolRejected ==
    /\ chat.pc = "awaiting"
    /\ toolResponses' = Append(toolResponses, Undefined)
    /\ LET c == ToolCaught([chat EXCEPT !.failed = @ + 1])
       IN  IF c.pc = "failing"
           THEN /\ chat' = [c EXCEPT !.pc = "done"]
                /\ http' = Append(http, FailedToProcess)
                /\ toolCallResults' = toolCallResults
           ELSE IF variant = "server-openai"
                THEN /\ toolCallResults' = Append(toolCallResults, ToolRejection)
                     /\ chat' = AfterPush(c)
                     /\ http' = http
                ELSE /\ toolCallResults' = toolCallResults
                     /\ chat' = [c EXCEPT !.pc = "done"]
                     /\ http' = Append(http, Ok("error accessing"))
    /\ UNCHANGED translation
    /\ HandlerFrame

\* server-openai.js: the final completion arrives and the answer is sent
FinalCompletion ==
    /\ variant = "server-openai"
    /\ chat.pc = "final"
    /\ Responds(Ok("content"))
    /\ UNCHANGED <<toolResponses, toolCallResults, translation>>
    /\ HandlerFrame

\* server.js: const toolResult = await callMCPServer(mcpRequest), the mock;
\* nothing is written to mcpProcess.stdin.  Then the follow-up completion
\* is asked for.
MockToolCall(output) ==
    /\ variant = "server"
    /\ chat.pc = "loop"
    /\ toolResponses' = Append(toolResponses, Undefined)
    /\ toolCallResults' =
         Append(toolCallResults,
                [content |-> Str(Text(output)), structuredData |-> Undefined, threw |-> FALSE])
    /\ chat' = [chat EXCEPT !.pc = "followup", !.llmCalls = @ + 1]
    /\ UNCHANGED <<http, translation>>
    /\ HandlerFrame

\* server.js: callMCPServer throws (args.component is not a string)
MockToolThrows ==
    /\ variant = "server"
    /\ chat.pc = "loop"
    /\ Fails("mock")
    /\ UNCHANGED <<toolResponses, toolCallResults, translation>>
    /\ HandlerFrame

\* server.js: the follow-up completion of a tool call arrives; after the
\* last one the answer is sent
FollowUp ==
    /\ variant = "server"
    /\ chat.pc = "followup"
    /\ IF Len(toolCallResults) < chat.toolCalls
       THEN /\ chat' = [chat EXCEPT !.pc = "loop"]
            /\ http' = http
       ELSE Responds(Ok("content"))
    /\ UNCHANGED <<toolResponses, toolCallResults, translation>>
    /\ HandlerFrame

HandlerNext ==
    \/ \E message \in Messages, language \in Languages, route \in Routes :
          ChatPost(message, language, route)
    \/ TranslateChemical
    \/ TranslateProperty
    \/ TranslateReturn
    \/ Translated
    \/ NeedsMoreInformation
    \/ \E n \in 0..MaxToolCalls : Completion(n)
    \/ CompletionFails
    \/ ArgumentsMalformed
    \/ InvokeTool
    \/ \E result \in HandlerResponses : ToolResolved(result)
    \/ ToolRejected
    \/ FinalCompletion
    \/ \E output \in MockOutputs : MockToolCall(output)
    \/ MockToolThrows
    \/ FollowUp

HandlerSpec == HandlerInit /\ [][HandlerNext]_vars

\* ======================================================== shutdown signals
Signals == {"SIGINT", "SIGTERM"}

\* process.on(sig, ...): server-openai.js and server-enhanced.js register a
\* handler for both signals, server.js for SIGINT only
HandlesSignal(v, sig) == sig = "SIGINT" \/ v # "server"

\* The server in any of the three backends, not yet listening.
ShutdownInit ==
    /\ BridgeInit
    /\ HostInit
    /\ variant \in Variants
    /\ translation = NoTranslation

\* the callback of app.listen: mcpServer.start() or startMCPServer()
Listening ==
    /\ server = "up"
    /\ Start

\* the worker writes to its error stream while the server is there
StderrData(data) ==
    /\ server = "up"
    /\ OnStderr(data)

\* the 'error' event of a failed spawn reaches the server
SpawnError(w) ==
    /\ server = "up"
    /\ OnProcessError(w)

\* The signal sig is delivered to the server.  With a handler: stop() (if
\* (mcpProcess) mcpProcess.kill() in server.js), then process.exit().
\* Without one the signal ends the server at once.
Signal(sig) ==
    /\ server = "up"
    /\ ~uncaught
    /\ server' = "exited"
    /\ workers' = IF HandlesSignal(variant, sig) /\ StopGuard(process) /\ process # "null"
                  THEN [workers EXCEPT ![Len(workers)] = Kill(@)]
                  ELSE workers
    /\ lastEvent' = [type |-> sig, line |-> NoLine, inv |-> 0]
    /\ UNCHANGED <<process, requestId, pendingRequests, callId, promises, timers, stdin,
                   uncaught, errorLogged, elapsed, resolverCalls, effects, settleLog,
                   stopCalls, owner>>
    /\ UNCHANGED chatVars
    /\ UNCHANGED <<variant, stderrLogged, translation>>

ShutdownNext ==
    \/ Listening
    \/ \E w \in 1..MaxStarts : SpawnError(w)
    \/ \E w \in 1..MaxStarts : WorkerExit(w)
    \/ \E data \in StderrChunks : StderrData(data)
    \/ \E sig \in Signals : Signal(sig)

ShutdownSpec == ShutdownInit /\ [][ShutdownNext]_vars

\* ================================================================ claims
TimersOf(i) == {k \in DOMAIN timers : timers[k].inv = i}
TimerFired(i) == \E k \in TimersOf(i) : timers[k].fired
Settled(i) == promises[i].state # "pending"
\* the event ev is the handling of a decodable response line carrying i's id
LineFor(ev, i) ==
    /\ ev.type = "line"
    /\ ev.line.form = "object"
    /\ ev.line.id = NumId(callId[i])
\* every invocation but i keeps its promise and its presence in the map
OthersUntouched(i) ==
    \A j \in Invocations \ {i} :
        /\ promises'[j] = promises[j]
        /\ MapHas(pendingRequests', NumId(callId[j])) <=> MapHas(pendingRequests, NumId(callId[j]))

\* ---------------------------------------------------------------- C1
C1_OnceSafe ==
    \A i \in Invocations :
        /\ resolverCalls[i] <= 1
        /\ Settled(i) <=> resolverCalls[i] = 1
        /\ Cardinality({n \in DOMAIN settleLog : settleLog[n] = i}) = resolverCalls[i]

\* C1: whatever the interleaving of calls, worker lines and timers, the
\* resolve/reject pair of every invocation is called at most once, its
\* promise settles exactly with that call, and an invocation whose timer
\* has been scheduled is eventually settled.
C1_SettledExactlyOnce ==
    /\ []C1_OnceSafe
    /\ \A i \in 1..MaxCalls :
         (i \in Invocations /\ TimersOf(i) # {}) ~> (i \in Invocations /\ Settled(i))

\* two overlapping invocations, the later one resolved first, the earlier
\* one rejected by its timer
C1_Witness ==
    /\ Len(promises) >= 2
    /\ promises[1].state = "rejected"
    /\ promises[2].state = "resolved"
    /\ settleLog = <<2, 1>>

\* ---------------------------------------------------------------- C2
\* C2: a resolved promise holds the decoded response line whose id is the
\* id its own invocation put in the request.
C2_IdIsolation ==
    \A i \in Invocations :
        promises[i].state = "resolved" =>
            /\ promises[i].value.form = "object"
            /\ promises[i].value.id = NumId(callId[i])
            /\ promises[i].value \in Lines

C2_Witness ==
    /\ Len(promises) >= 2
    /\ promises[1].state = "resolved" /\ promises[1].value.body = "error"
    /\ promises[2].state = "resolved" /\ promises[2].value.body = "result"

\* ---------------------------------------------------------------- C3
\* C3: each invocation has exactly one timer; a rejection carries the
\* message "MCP server timeout" and happens no earlier than 10000 ms after
\* registration; once the timer has fired, an invocation that got no
\* response is rejected.
C3_Timeout ==
    \A i \in Invocations :
        /\ Cardinality(TimersOf(i)) = 1
        /\ promises[i].state = "rejected" =>
              /\ promises[i].reason = "MCP server timeout"
              /\ promises[i].at >= 10000
        /\ (TimerFired(i) /\ promises[i].state # "resolved") => promises[i].state = "rejected"

C3_Witness ==
    \E i \in Invocations :
        /\ lastEvent.type = "timer" /\ lastEvent.inv = i
        /\ promises[i].state = "rejected"
        /\ promises[i].reason = TimeoutMessage

\* ---------------------------------------------------------------- C4
\* the step handles a response line carrying an error object for the
\* pending invocation i
C4_ErrorDelivered(i) ==
    /\ LineFor(lastEvent', i)
    /\ lastEvent'.line.body = "error"
    /\ promises[i].state = "pending"
    /\ MapHas(pendingRequests, NumId(callId[i]))

C5_EventFor(i) ==
    \/ lastEvent'.type = "timer" /\ lastEvent'.inv = i
    \/ LineFor(lastEvent', i)

C5_OneEffect ==
    \A i \in Invocations :
        /\ effects[i] <= 1
        /\ TimerFired(i) => effects[i] = 1

\* C5: of the response delivery and the timer firing for one id, exactly
\* one changes the map and settles the promise; whichever comes after it
\* changes neither the map nor any promise.
C5_ExactlyOneActs ==
    /\ []C5_OneEffect
    /\ [][ \A i \in Invocations :
             (C5_EventFor(i) /\ effects[i] >= 1) =>
                 /\ pendingRequests' = pendingRequests
                 /\ promises' = promises ]_vars

\* the timer of an invocation fires after its response has resolved it
C5_Witness ==
    \E i \in Invocations :
        /\ lastEvent.type = "timer" /\ lastEvent.inv = i
        /\ promises[i].state = "resolved"
        /\ effects[i] = 1

\* ---------------------------------------------------------------- C6
\* C6: a response line for an invocation already rejected by its timeout
\* changes neither the map nor any promise, calls no resolver and throws
\* nothing.
C6_LateResponseIgnored ==
    [][ \A i \in Invocations :
          (LineFor(lastEvent', i) /\ promises[i].state = "rejected") =>
              /\ UNCHANGED <<pendingRequests, promises, resolverCalls>>
              /\ ~uncaught'
              /\ errorLogged' = errorLogged ]_vars

C6_Witness ==
    \E i \in Invocations :
        /\ LineFor(lastEvent, i)
        /\ promises[i].state = "rejected"
        /\ promises[i].reason = TimeoutMessage

\* ---------------------------------------------------------------- C7
\* C7: a line that is no JSON, or decodes to null or a number, changes
\* neither the map nor any promise, lets no exception out of the handler
\* and leaves the handler in place; a matching response handled after a
\* logged decode failure still resolves its invocation.
C7_BadLineDropped ==
    [][ /\ (lastEvent'.type = "line" /\ lastEvent'.line \in BadLines) =>
              /\ UNCHANGED <<pendingRequests, promises, resolverCalls, requestId>>
              /\ ~uncaught'
              /\ process' = "running"
        /\ \A i \in Invocations :
              (errorLogged /\ LineFor(lastEvent', i) /\ promises[i].state = "pending"
                 /\ MapHas(pendingRequests, NumId(callId[i]))) =>
                  /\ promises'[i].state = "resolved"
                  /\ promises'[i].value = lastEvent'.line ]_vars

\* a response resolves its invocation after a decode failure was logged
C7_Witness ==
    /\ errorLogged
    /\ \E i \in Invocations :
        /\ LineFor(lastEvent, i)
        /\ promises[i].state = "resolved"
        /\ promises[i].value = lastEvent.line
        /\ settleLog[Len(settleLog)] = i

\* ---------------------------------------------------------------- C8
\* C8: a decodable response whose id has no entry in the map changes
\* neither the map, nor the id counter, nor any promise.
C8_UnmatchedDiscarded ==
    [][ (/\ lastEvent'.type = "line"
         /\ lastEvent'.line.form = "object"
         /\ ~MapHas(pendingRequests, lastEvent'.line.id)) =>
            UNCHANGED <<pendingRequests, requestId, promises, resolverCalls>> ]_vars

\* a second, different response for an id whose response was delivered
C8_Witness ==
    \E i \in Invocations :
        /\ LineFor(lastEvent, i)
        /\ promises[i].state = "resolved"
        /\ promises[i].value # lastEvent.line

\* ---------------------------------------------------------------- C9
\* C9: the i-th invocation gets id i (1, 2, 3, ...), the counter equals the
\* number of invocations made, so ids strictly increase and never repeat.
C9_IdsSequential ==
    /\ requestId = Len(callId)
    /\ \A i \in Invocations : callId[i] = i /\ stdin[i].id = i
    /\ \A i, j \in Invocations : i < j => callId[i] < callId[j]

\* an invocation made after the previous one timed out
C9_Witness ==
    /\ Len(callId) >= 2
    /\ promises[1].state = "rejected"
    /\ lastEvent.type = "call" /\ lastEvent.inv = 2
    /\ callId[2] = 2

\* ---------------------------------------------------------------- C10
\* C10: with invocations 1 and 2 pending, the response to 2 resolves 2 with
\* that response and leaves 1 pending; the response to 1 that follows
\* resolves 1 with its own response and leaves 2 as it is.
C10_OutOfOrder ==
    [][ (Len(promises) >= 2 /\ promises[1].state = "pending") =>
          /\ (LineFor(lastEvent', 2) /\ promises[2].state = "pending") =>
                /\ promises'[2].state = "resolved"
                /\ promises'[2].value = lastEvent'.line
                /\ promises'[1].state = "pending"
                /\ settleLog' = Append(settleLog, 2)
          /\ (LineFor(lastEvent', 1) /\ promises[2].state = "resolved") =>
                /\ promises'[1].state = "resolved"
                /\ promises'[1].value = lastEvent'.line
                /\ promises'[2] = promises[2]
                /\ settleLog' = Append(settleLog, 1) ]_vars

C10_Witness ==
    /\ Len(promises) >= 2
    /\ settleLog = <<2, 1>>
    /\ promises[1].state = "resolved" /\ promises[1].value.id = NumId(1)
    /\ promises[2].state = "resolved" /\ promises[2].value.id = NumId(2)
    /\ LineFor(lastEvent, 1)

\* ---------------------------------------------------------------- C11
\* C11: the request lines on the worker's input are those of the
\* invocations in call order, their ids strictly increase, and each is one
\* complete JSON document closed by its own line terminator.
C11_WireOrder ==
    /\ \A n \in DOMAIN stdin :
          /\ stdin[n].newline
          /\ stdin[n].method = "call_tool"
          /\ n \in DOMAIN callId => stdin[n].id = callId[n]
    /\ \A m, n \in DOMAIN stdin : m < n => stdin[m].id < stdin[n].id

\* a second invocation written while the first is still pending
C11_Witness ==
    /\ Len(stdin) >= 2
    /\ stdin[1].id = 1 /\ stdin[2].id = 2
    /\ lastEvent.type = "call" /\ lastEvent.inv = 2
    /\ promises[1].state = "pending"

\* ---------------------------------------------------------------- C12
C12_OneLineEach ==
    /\ Len(stdin) = Len(callId)
    /\ \A i \in Invocations :
          Cardinality({n \in DOMAIN stdin : stdin[n].id = callId[i]}) = 1

\* C12: every invocation has exactly one request line on the worker's
\* input, and no callback other than callTool itself (timeout, response,
\* dropped line) ever writes to it.
C12_NoRetries ==
    /\ []C12_OneLineEach
    /\ [][ lastEvent'.type # "call" => stdin' = stdin ]_vars

\* after a timeout, a worker error and a dropped line nothing was re-sent
C12_Witness ==
    /\ errorLogged
    /\ \E i, j \in Invocations :
          /\ promises[i].state = "rejected"
          /\ promises[j].state = "resolved" /\ promises[j].value.body = "error"
    /\ Len(stdin) = Len(callId)

\* ---------------------------------------------------------------- C13
\* the worker start() launched is gone: its spawn failed or it has exited
WorkerDown ==
    /\ workers # << >>
    /\ \A w \in DOMAIN workers : workers[w].state # "alive"

\* C13: once the worker failed to launch or exited, no other worker is
\* ever spawned, no exception ends the server, no invocation is resolved
\* any more, and every invocation that is pending then or made later is
\* eventually rejected with the timeout error.
C13_DeadWorkerTimesOut ==
    /\ [](Len(workers) <= 1)
    /\ [](WorkerDown => ~uncaught)
    /\ [][ WorkerDown =>
             /\ WorkerDown'
             /\ \A i \in Invocations :
                   promises'[i].state = "resolved" => promises[i].state = "resolved" ]_vars
    /\ \A i \in 1..MaxCalls :
         (WorkerDown /\ i \in Invocations /\ promises[i].state = "pending")
            ~> (/\ i \in Invocations
                /\ promises[i].state = "rejected"
                /\ promises[i].reason = TimeoutMessage)

\* the worker has exited and the server is still there: two invocations
\* were never answered and both have been rejected by their timers
C13_Witness ==
    /\ workers = << [state |-> "exited", signals |-> 0] >>
    /\ ~uncaught
    /\ settleLog = << 1, 2 >>
    /\ \A i \in Invocations :
          promises[i].state = "rejected" /\ promises[i].reason = TimeoutMessage

\* ------------------------------------------------- C14 .. C18: tool results
\* result.result.output of a response
OutputOf(result) == Member(Member(result, "result"), "output")
\* the response is {result: {output: <a string>}}
HasTextOutput(n) == OutputOf(toolResponses[n]).t = "string"
\* what JSON.parse makes of that string
Decoded(n) == JSONParseText(OutputOf(toolResponses[n]).s)
HasMarker(n) == Includes(OutputOf(toolResponses[n]).s, Marker)
\* the entry was pushed by the try block, not by the catch of the tool call
Succeeded(n) == ~toolCallResults[n].threw

\* ---------------------------------------------------------------- C14
\* C14: a response {output: X} whose string X carries no marker yields
\* content = X and structuredData = null, for every string X, the empty
\* string included.
C14_PlainTextKept ==
    \A n \in DOMAIN toolCallResults :
        (HasTextOutput(n) /\ ~HasMarker(n)) =>
            /\ toolCallResults[n].content = OutputOf(toolResponses[n])
            /\ toolCallResults[n].structuredData = Null

\* ---------------------------------------------------------------- C15
\* the output decodes to a mapping with a property and a formatted_text member
DecodesToDocument(n) ==
    /\ HasTextOutput(n)
    /\ ~Decoded(n).threw
    /\ Decoded(n).value.t = "object"
    /\ {"property", "formatted_text"} \subseteq DOMAIN Decoded(n).value.m

C17_UndecodableKept ==
    \A n \in DOMAIN toolCallResults :
        (HasTextOutput(n) /\ HasMarker(n) /\ Decoded(n).threw) =>
            /\ Succeeded(n)
            /\ toolCallResults[n].content = OutputOf(toolResponses[n])
            /\ toolCallResults[n].structuredData = Null

\* a truncated document and a sentence quoting the marker went through
C17_Witness ==
    /\ Len(toolCallResults) = 2
    /\ toolResponses[1] = OutputResponse(Str(TruncatedText))
    /\ toolResponses[2] = OutputResponse(Str(MentionText))
    /\ toolCallResults[1].content = Str(TruncatedText)
    /\ toolCallResults[2].content = Str(MentionText)

\* ---------------------------------------------------------------- C18
\* C18: every successful tool invocation yields a content that is a string
\* and a structuredData that is a mapping or null, whatever the shape of
\* the response.
C18_ContentIsString ==
    \A n \in DOMAIN toolCallResults :
        Succeeded(n) =>
            /\ toolCallResults[n].content.t = "string"
            /\ toolCallResults[n].structuredData.t \in {"object", "null"}

\* ---------------------------------------------------------------- C19
\* C19: stop() before any start() changes nothing and raises nothing; a
\* stop() after an earlier stop() raises nothing, leaves the manager and
\* the state of every worker as they were, and sends no signal to a worker
\* that is not running.
C19_StopIdempotent ==
    [][ stopCalls' # stopCalls =>
          /\ ~uncaught'
          /\ process' = process
          /\ Len(workers') = Len(workers)
          /\ \A w \in DOMAIN workers :
                /\ workers'[w].state = workers[w].state
                /\ workers[w].state # "alive" => workers'[w] = workers[w]
          /\ process = "null" => workers' = workers ]_vars

\* a worker that was stopped, exited, and was stopped again has received
\* one signal only
C19_Witness ==
    /\ ~uncaught
    /\ stopCalls = 2
    /\ lastEvent.type = "stop"
    /\ workers = << [state |-> "exited", signals |-> 1] >>

\* ---------------------------------------------------------------- C20
\* C20 as stated: whatever the sequence of start(), stop() and worker
\* exits, at most one spawned worker is alive.
C20_OneLiveWorker == Cardinality(LiveWorkers) <= 1

\* C20, amended: every start() spawns exactly one worker, whether or not
\* one is running, nothing else spawns one, and a worker that is gone never
\* comes back; so the live workers are at most as many as the start()
\* calls, and at most one after a single start().
C20_OneWorkerPerStart ==
    /\ [][ /\ Len(workers') =
                Len(workers) + (IF lastEvent'.type = "start" THEN 1 ELSE 0)
           /\ \A w \in DOMAIN workers :
                 workers[w].state # "alive" => workers'[w].state # "alive" ]_vars
    /\ [](Len(workers) <= 1 => Cardinality(LiveWorkers) <= 1)

\* a start() while a worker was running: two workers alive
C20_Witness ==
    /\ Len(workers) = 2
    /\ LiveWorkers = {1, 2}
    /\ lastEvent.type = "start"

\* ---------------------------------------------------------------- C25
\* C25: an entry of the pending map is gone at the latest when the timer
\* of its invocation has run, so once every timer has run the map is
\* empty, and a map that holds entries is eventually empty again, so that
\* every entry present is removed, whether or not the worker answers.
C25_NoLeak ==
    /\ [](\A i \in Invocations :
            TimerFired(i) => ~MapHas(pendingRequests, NumId(callId[i])))
    /\ []((\A i \in Invocations : TimerFired(i)) => pendingRequests = << >>)
    /\ (pendingRequests # << >>) ~> (pendingRequests = << >>)

\* a live worker that never answered: both entries were removed by their
\* timers
C25_Witness ==
    /\ LiveWorkers # {}
    /\ Len(promises) = 2
    /\ \A i \in Invocations :
          /\ TimerFired(i)
          /\ promises[i].reason = TimeoutMessage
          /\ effects[i] = 1
    /\ pendingRequests = << >>

\* ---------------------------------------------------------------- C24
Key(i) == NumId(callId[i])

\* C24: in every state the keys of the pending map are exactly
\* the ids of the invocations whose promise is not settled, also for an
\* invocation made while there is no worker process.
C24_PendingKeysExact ==
    DOMAIN pendingRequests =
        {Key(i) : i \in {j \in Invocations : promises[j].state = "pending"}}

\* ---------------------------------------------------------------- C23
\* C23: a chunk arriving on the worker's error stream is logged and nothing
\* else: the step leaves the pending map, every promise, the timers, the
\* worker's input, the tool results and the HTTP responses as they were,
\* and no invocation is ever rejected with the text of a chunk.
C23_StderrOnlyLogged ==
    /\ [][ stderrLogged' # stderrLogged =>
             /\ \E data \in StderrChunks : stderrLogged' = stderrLogged \cup {data}
             /\ UNCHANGED <<pendingRequests, promises, timers, stdin, uncaught,
                            settleLog, toolCallResults, http>> ]_vars
    /\ [](\A i \in Invocations : promises[i].reason \notin StderrChunks)

\* a chunk was logged while an invocation was pending, and the invocation was
\* answered by the worker afterwards
C23_Witness ==
    /\ stderrLogged # {}
    /\ Len(promises) = 2
    /\ promises[1].state = "resolved"
    /\ promises[2].state = "pending"
    /\ MapHas(pendingRequests, Key(2))

\* ---------------------------------------------------------------- C27
\* the invocations of chat request r whose entry is in the pending map
PendingOf(r) ==
    {i \in Invocations : owner[i] = r /\ MapHas(pendingRequests, Key(i))}

\* C27: the tool calls of one chat request go one after the other: a request
\* line is written for a chat request only when the promises of all its
\* earlier invocations have settled, and a chat request never has more than
\* one entry in the pending map.
C27_SequentialPerRequest ==
    /\ [](\A r \in ChatRequests : Cardinality(PendingOf(r)) <= 1)
    /\ [][ Len(stdin') > Len(stdin) =>
             \A i \in Invocations :
                 owner[i] = owner'[Len(owner')] => Settled(i) ]_vars

\* the second invocation of a chat request is pending, made after its first
\* one was rejected by the timer
C27_Witness ==
    /\ owner = << 1, 1 >>
    /\ promises[1].state = "rejected"
    /\ promises[2].state = "pending"
    /\ Len(stdin) = 2
    /\ PendingOf(1) = {2}

\* two chat requests have one invocation pending each
C27_Concurrent ==
    /\ PendingOf(1) # {}
    /\ PendingOf(2) # {}

\* ---------------------------------------------------------------- C29
\* C29: translateQuery of a key of chemicalTranslations is exactly the
\* English name the table gives for that key.
C29_KeyTranslatesToItsName ==
    \A n \in DOMAIN chemicalTranslations :
        (Returned /\ translation.query = chemicalTranslations[n].korean)
            => translation.translatedQuery = chemicalTranslations[n].english

\* ---------------------------------------------------------------- C28
\* C28: a chat request whose body has no message, or an empty one, is
\* answered with status 400 and "Message is required", whatever else the
\* body holds, and neither the completion API nor a tool has been called.
C28_MissingMessageIs400 ==
    (chat.pc = "done" /\ Falsy(chat.posted)) =>
        /\ http = << MessageRequired >>
        /\ chat.llmCalls = 0
        /\ chat.forwarded = 0

\* ---------------------------------------------------------------- C22
\* C22: in every backend each tool result handed back to the model answers
\* a call_tool request the handler has sent to the worker, and it is made
\* from the worker's response to that request unless the request failed.
C22_ToolCallsForwarded ==
    \A n \in DOMAIN toolCallResults :
        /\ chat.forwarded >= n
        /\ toolCallResults[n].threw \/ toolResponses[n].t = "object"

\* ---------------------------------------------------------------- C26
\* the step is the rejection of the awaited callTool promise
ToolRejectedStep == chat'.failed = chat.failed + 1

\* C26: a rejected tool invocation does not fail the chat request.  In
\* server-openai.js the rejection becomes a tool message "Error: <message>"
\* and the loop goes on to the remaining tool calls or to the final
\* completion; in server-enhanced.js it becomes the text of the response,
\* sent with status 200.  A chat request gets one response, and status 500
\* only when something other than a tool invocation has thrown.
C26_ToolFailureContained ==
    /\ [](Len(http) <= 1)
    /\ [](chat.pc = "done" <=> Len(http) = 1)
    /\ [](\A n \in DOMAIN http : http[n].status = 500 => chat.fault # "none")
    /\ [][ ToolRejectedStep =>
             IF variant = "server-openai"
             THEN /\ toolCallResults' = Append(toolCallResults, ToolRejection)
                  /\ http' = http
                  /\ chat'.pc = IF Len(toolCallResults') < chat.toolCalls THEN "loop" ELSE "final"
             ELSE /\ variant = "server-enhanced"
                  /\ http' = << Ok("error accessing") >> ]_vars

\* server-openai.js: the first of two tool calls was rejected, the second
\* one was still made and answered, and the request got its answer
C26_Witness ==
    /\ variant = "server-openai"
    /\ chat.pc = "done"
    /\ chat.forwarded = 2
    /\ toolCallResults = << ToolRejection, Normalize(OutputResponse(Str(PlainText))) >>
    /\ http = << Ok("content") >>

\* ---------------------------------------------------------------- C21
\* C21: in every backend, when SIGINT or SIGTERM has ended the server, a
\* worker that was running when the signal came has been sent a termination
\* signal: no worker that was never signalled is alive beside an exited
\* server.
C21_WorkerSignalledOnShutdown ==
    server = "exited" =>
        \A w \in DOMAIN workers :
            workers[w].state = "alive" => workers[w].signals >= 1

====
